---- MODULE Spec2Model ----
(***************************************************************************)
(* Model of the TodoApp component (src/app/page.tsx): the task store kept  *)
(* in React state, its localStorage persistence effects, the event         *)
(* handlers that mutate it and the delete timer.                           *)
(*                                                                         *)
(* One step of the model is one browser task: a mount phase, a user event  *)
(* handler or a timer callback, followed by the re-render and the passive  *)
(* effects that React runs before the next task.  A handler therefore      *)
(* always reads the `todos` of the latest render, while a timer callback   *)
(* reads the `todos` captured when the timer was created.                  *)
(* The second copy of the component in the repository (an earlier          *)
(* version of the page) has the same handlers except that its deleteTodo   *)
(* filters the list in the click handler, without a timer.                 *)
(*                                                                         *)
(* Texts are sequences of one-character strings; dates are day numbers     *)
(* (NullDate for null, EmptyDate for the empty string of the date input).  *)
(* The form fields inputValue, priority, category, dueDate and notes are   *)
(* the inputs of addTodo; purely presentational flags (showAddForm,        *)
(* showStats, addedId) are not read by any store logic and are left out.   *)
(*                                                                         *)
(* To keep the reachable states enumerable, a behaviour explores one       *)
(* `scenario` of use, fixed when the page loads: "completing" (adding,     *)
(* completing and clearing tasks), "deleting" (adding, deleting and        *)
(* clearing tasks, with the delete timers), "editing" (adding tasks from   *)
(* every form input, editing texts, changing priorities), "api" (every     *)
(* handler called directly, also with ids that name no task), "startup"    *)
(* (every kind of persisted value, up to the interactive state),           *)
(* "viewing" (the filter, category, sort and search controls over loaded   *)
(* and added tasks), "dates" (the rows' date predicates while the wall     *)
(* clock passes) or "theme" (the dark mode button next to adding and       *)
(* completing tasks).  `boot` remembers the localStorage content found at  *)
(* page load and `last` the last handler that ran; both are history        *)
(* variables.  `timeZone` is the browser's offset from UTC in hours.       *)
(***************************************************************************)
EXTENDS Integers, Sequences, FiniteSets, TLC

VARIABLES pc, storage, pending, todos, darkMode, editingId, editText,
          deletingId, timers, now, last, boot, scenario,
          filter, categoryFilter, sortBy, searchQuery, timeZone

vars == <<pc, storage, pending, todos, darkMode, editingId, editText,
          deletingId, timers, now, last, boot, scenario,
          filter, categoryFilter, sortBy, searchQuery, timeZone>>

(* ------------------------------ bounds -------------------------------- *)
MaxTodos == 2
MaxClock == 2
MaxTimers == 1

(* ----------------------------- data model ----------------------------- *)
Priorities == {"low", "medium", "high"}

Categories == {"personal", "work", "shopping", "health", "other"}

NullDate == -1

EmptyDate == 0

NoId == -1

DateValue(ms) == [type |-> "Date", ms |-> ms]

Todo(id, text, completed, priority, category, dueDate, createdAt, notes) ==
  [id |-> id, text |-> text, completed |-> completed, priority |-> priority,
   category |-> category, dueDate |-> dueDate, createdAt |-> createdAt,
   notes |-> notes]

(* ------------------------------- strings ------------------------------ *)
IsSpace(c) == c \in {" "}

RECURSIVE TrimStart(_)
TrimStart(s) ==
  IF s = <<>> THEN s
  ELSE IF IsSpace(Head(s)) THEN TrimStart(Tail(s)) ELSE s

RECURSIVE TrimEnd(_)
TrimEnd(s) ==
  IF s = <<>> THEN s
  ELSE IF IsSpace(s[Len(s)]) THEN TrimEnd(SubSeq(s, 1, Len(s) - 1)) ELSE s

Trim(s) == TrimEnd(TrimStart(s))

(* compares the raw text, forgetting to trim *)
IsBlankNoTrim(s) == s = <<>>

IsBlank(s) == Trim(s) = <<>>

(* --------------------------- array helpers ---------------------------- *)
IdsOf(s) == {s[i].id : i \in 1..Len(s)}

(* ------------------------ JSON and localStorage ----------------------- *)
(* A JavaScript / JSON value.  kind "array" carries the elements in a,     *)
(* kind "bool" the boolean in b; "badarray" is an array whose elements     *)
(* are not task records.  A localStorage entry is such a value, or is      *)
(* "absent" (getItem returns null), "empty" (the empty string) or          *)
(* "garbage" (text that JSON.parse rejects).                               *)
Val(kind) == [kind |-> kind, b |-> FALSE, a |-> <<>>]

BoolVal(b) == [kind |-> "bool", b |-> b, a |-> <<>>]

ArrayVal(a) == [kind |-> "array", b |-> FALSE, a |-> a]

None == Val("none")

(* Date.prototype.toJSON turns a Date into its ISO string *)
ToJSON(todo) ==
  [todo EXCEPT !.createdAt = [type |-> "string", ms |-> @.ms]]

Stringify(list) == ArrayVal([i \in 1..Len(list) |-> ToJSON(list[i])])

Truthy(entry) == entry.kind \notin {"absent", "empty"}

ParseThrows(entry) == entry.kind = "garbage"

Parse(entry) == entry

(* writes nothing once the list is empty *)
SaveTodosSkipsEmpty(st, list) ==
  IF list = <<>> THEN st ELSE [st EXCEPT !.complexTodos = Stringify(list)]

SaveTodos(st, list) == [st EXCEPT !.complexTodos = Stringify(list)]

(* leaves the persisted preference as it is *)
SaveDarkModeNever(st, v) == st

SaveDarkMode(st, v) == [st EXCEPT !.darkMode = v]

(* ------------------------------- inputs ------------------------------- *)
InputTexts == {<<>>, <<" ", " ">>, <<"a">>, <<" ", "B">>}

FormInputs ==
  { [inputValue |-> <<>>, priority |-> "medium", category |-> "personal",
     dueDate |-> EmptyDate, notes |-> ""],
    [inputValue |-> <<" ", " ">>, priority |-> "high", category |-> "work",
     dueDate |-> 3, notes |-> "n"],
    [inputValue |-> <<"a">>, priority |-> "high", category |-> "shopping",
     dueDate |-> EmptyDate, notes |-> ""],
    [inputValue |-> <<" ", "B">>, priority |-> "low", category |-> "work",
     dueDate |-> 3, notes |-> "n"] }

BasicForms == {f \in FormInputs : f.notes = ""}

FormsOf(sc) == IF sc = "editing" THEN FormInputs ELSE BasicForms

LoadedTodo ==
  Todo(0, <<"a">>, TRUE, "medium", "personal", NullDate,
       [type |-> "string", ms |-> 0], "")

PriorityInputs == {"low", "high"}

IdUniverse == 0..MaxClock

Op(name) == [op |-> name]

(* ------------------------------- startup ------------------------------ *)
InitAt(scenarios, entries, clocks, zones) ==
  /\ scenario \in scenarios
  /\ pc = "mount"
  /\ storage \in entries
  /\ boot = storage
  /\ pending = [todos |-> None, darkMode |-> None]
  /\ todos = <<>>
  /\ darkMode = BoolVal(FALSE)
  /\ editingId = NoId
  /\ editText = <<>>
  /\ deletingId = NoId
  /\ timers = <<>>
  /\ now \in clocks
  /\ last = Op("init")
  /\ filter = "all"
  /\ categoryFilter = "all"
  /\ sortBy = "date"
  /\ searchQuery = <<>>
  /\ timeZone \in zones

(* a page load at clock reading 1, in the UTC time zone *)
InitWith(scenarios, entries) == InitAt(scenarios, entries, {1}, {0})

EmptyStorage == [complexTodos |-> Val("absent"), darkMode |-> Val("absent")]

UsualEntries ==
  { EmptyStorage,
    [complexTodos |-> Stringify(<<LoadedTodo>>), darkMode |-> Val("absent")] }

Init ==
  \/ InitWith({"completing", "deleting"}, UsualEntries)
  \/ InitWith({"editing"}, {EmptyStorage})

(* first commit: the load effect, then both save effects, all with the     *)
(* state of the first render (todos = [], darkMode = false)                *)
MountEffects ==
  /\ pc = "mount"
  /\ LET savedTodos == storage.complexTodos
         savedDarkMode == storage.darkMode
         throws == \/ Truthy(savedTodos) /\ ParseThrows(savedTodos)
                   \/ Truthy(savedDarkMode) /\ ParseThrows(savedDarkMode)
         pend == [todos |-> IF Truthy(savedTodos)
                            THEN Parse(savedTodos) ELSE None,
                  darkMode |-> IF Truthy(savedDarkMode)
                               THEN Parse(savedDarkMode) ELSE None]
     IN IF throws
        THEN /\ pc' = "error"
             /\ UNCHANGED <<storage, pending>>
        ELSE /\ pending' = pend
             /\ storage' = SaveDarkMode(SaveTodos(storage, todos), darkMode)
             /\ pc' = IF pend.todos = None /\ pend.darkMode = None
                      THEN "ready" ELSE "rerender"
  /\ last' = Op("mount")
  /\ UNCHANGED <<boot, scenario, timeZone>>
  /\ UNCHANGED <<filter, categoryFilter, sortBy, searchQuery>>
  /\ UNCHANGED <<todos, darkMode, editingId, editText, deletingId, timers,
                 now>>

(* second render with the loaded state, then the save effects whose       *)
(* dependency changed                                                      *)
Rerender ==
  /\ pc = "rerender"
  /\ LET newTodos == pending.todos
         newDark == IF pending.darkMode = None
                    THEN darkMode ELSE pending.darkMode
     IN IF newTodos # None /\ newTodos.kind # "array"
        THEN /\ pc' = "error"
             /\ UNCHANGED <<storage, todos, darkMode>>
        ELSE /\ pc' = "ready"
             /\ todos' = IF newTodos = None THEN todos ELSE newTodos.a
             /\ darkMode' = newDark
             /\ storage' =
                  LET st1 == IF newTodos = None THEN storage
                             ELSE SaveTodos(storage, newTodos.a)
                  IN IF newDark = darkMode THEN st1
                     ELSE SaveDarkMode(st1, newDark)
  /\ pending' = [todos |-> None, darkMode |-> None]
  /\ last' = Op("rerender")
  /\ UNCHANGED <<boot, scenario, timeZone>>
  /\ UNCHANGED <<filter, categoryFilter, sortBy, searchQuery>>
  /\ UNCHANGED <<editingId, editText, deletingId, timers, now>>

(* ------------------------------ handlers ------------------------------ *)
NewTodo(f, t) ==
  Todo(t, f.inputValue, FALSE, f.priority, f.category,
       IF f.dueDate = EmptyDate THEN NullDate ELSE f.dueDate,
       DateValue(t), f.notes)

AddTodo(f) ==
  /\ pc = "ready"
  /\ IF IsBlank(f.inputValue)
     THEN /\ last' = Op("addBlank")
          /\ UNCHANGED <<todos, storage>>
     ELSE /\ Len(todos) < MaxTodos
          /\ todos' = <<NewTodo(f, now)>> \o todos
          /\ storage' = SaveTodos(storage, todos')
          /\ last' = Op("add")
  /\ UNCHANGED <<boot, scenario, timeZone>>
  /\ UNCHANGED <<filter, categoryFilter, sortBy, searchQuery>>
  /\ UNCHANGED <<pc, pending, darkMode, editingId, editText, deletingId,
                 timers, now>>

(* marks the task done instead of flipping the flag *)
ToggledMarksDone(list, id) ==
  LET mark(todo) == IF todo.id = id
                    THEN [todo EXCEPT !.completed = TRUE]
                    ELSE todo
  IN [i \in 1..Len(list) |-> mark(list[i])]

Toggled(list, id) ==
  LET flip(todo) == IF todo.id = id
                    THEN [todo EXCEPT !.completed = ~todo.completed]
                    ELSE todo
  IN [i \in 1..Len(list) |-> flip(list[i])]

ToggleTodo(id) ==
  /\ pc = "ready"
  /\ todos' = Toggled(todos, id)
  /\ storage' = SaveTodos(storage, todos')
  /\ last' = Op("toggle")
  /\ UNCHANGED <<boot, scenario, timeZone>>
  /\ UNCHANGED <<filter, categoryFilter, sortBy, searchQuery>>
  /\ UNCHANGED <<pc, pending, darkMode, editingId, editText, deletingId,
                 timers, now>>

Without(list, id) ==
  LET keep(todo) == todo.id # id
  IN SelectSeq(list, keep)

(* removes the task in the click handler itself *)
DeleteTodoImmediate(id) ==
  /\ pc = "ready"
  /\ todos' = Without(todos, id)
  /\ storage' = SaveTodos(storage, todos')
  /\ last' = Op("delete")
  /\ UNCHANGED <<boot, scenario, timeZone>>
  /\ UNCHANGED <<filter, categoryFilter, sortBy, searchQuery>>
  /\ UNCHANGED <<pc, pending, darkMode, editingId, editText, deletingId,
                 timers, now>>

(* the click: mark the row and start the 300 ms timer, whose callback      *)
(* closes over the todos of this render                                    *)
DeleteTodo(id) ==
  /\ pc = "ready"
  /\ Len(timers) < MaxTimers
  /\ deletingId' = id
  /\ timers' = Append(timers, [id |-> id, snap |-> todos, at |-> now])
  /\ last' = Op("delete")
  /\ UNCHANGED <<boot, scenario, timeZone>>
  /\ UNCHANGED <<filter, categoryFilter, sortBy, searchQuery>>
  /\ UNCHANGED <<pc, storage, pending, todos, darkMode, editingId, editText,
                 now>>

(* the timer callback; timers of equal delay fire in creation order, and   *)
(* not before the millisecond clock has advanced                           *)
DeleteTimer ==
  /\ pc = "ready"
  /\ timers # <<>>
  /\ now > Head(timers).at
  /\ todos' = Without(Head(timers).snap, Head(timers).id)
  /\ deletingId' = NoId
  /\ timers' = Tail(timers)
  /\ storage' = SaveTodos(storage, todos')
  /\ last' = Op("timer")
  /\ UNCHANGED <<boot, scenario, timeZone>>
  /\ UNCHANGED <<filter, categoryFilter, sortBy, searchQuery>>
  /\ UNCHANGED <<pc, pending, darkMode, editingId, editText, now>>

StartEditing(i) ==
  /\ pc = "ready"
  /\ i \in 1..Len(todos)
  /\ editingId' = todos[i].id
  /\ editText' = todos[i].text
  /\ last' = Op("startEditing")
  /\ UNCHANGED <<boot, scenario, timeZone>>
  /\ UNCHANGED <<filter, categoryFilter, sortBy, searchQuery>>
  /\ UNCHANGED <<pc, storage, pending, todos, darkMode, deletingId, timers,
                 now>>

SetEditText(t) ==
  /\ pc = "ready"
  /\ editingId \in IdsOf(todos)
  /\ editText' = t
  /\ last' = Op("setEditText")
  /\ UNCHANGED <<boot, scenario, timeZone>>
  /\ UNCHANGED <<filter, categoryFilter, sortBy, searchQuery>>
  /\ UNCHANGED <<pc, storage, pending, todos, darkMode, editingId,
                 deletingId, timers, now>>

(* stores the trimmed text instead of the text as typed *)
RetextedTrimmed(list, id, text) ==
  LET put(todo) == IF todo.id = id
                   THEN [todo EXCEPT !.text = Trim(text)] ELSE todo
  IN [i \in 1..Len(list) |-> put(list[i])]

Retexted(list, id, text) ==
  LET put(todo) == IF todo.id = id THEN [todo EXCEPT !.text = text] ELSE todo
  IN [i \in 1..Len(list) |-> put(list[i])]

(* stores the edit buffer without looking at it *)
SaveEditUnchecked(id) ==
  /\ pc = "ready"
  /\ todos' = Retexted(todos, id, editText)
  /\ storage' = SaveTodos(storage, todos')
  /\ editingId' = NoId
  /\ editText' = <<>>
  /\ last' = Op("saveEdit")
  /\ UNCHANGED <<boot, scenario, timeZone>>
  /\ UNCHANGED <<filter, categoryFilter, sortBy, searchQuery>>
  /\ UNCHANGED <<pc, pending, darkMode, deletingId, timers, now>>

SaveEdit(id) ==
  /\ pc = "ready"
  /\ IF IsBlank(editText)
     THEN /\ last' = Op("saveEditBlank")
          /\ UNCHANGED <<todos, storage, editingId, editText>>
     ELSE /\ todos' = Retexted(todos, id, editText)
          /\ storage' = SaveTodos(storage, todos')
          /\ editingId' = NoId
          /\ editText' = <<>>
          /\ last' = Op("saveEdit")
  /\ UNCHANGED <<boot, scenario, timeZone>>
  /\ UNCHANGED <<filter, categoryFilter, sortBy, searchQuery>>
  /\ UNCHANGED <<pc, pending, darkMode, deletingId, timers, now>>

(* gives every task the new priority *)
ReprioritizedAll(list, id, p) ==
  [i \in 1..Len(list) |-> [list[i] EXCEPT !.priority = p]]

Reprioritized(list, id, p) ==
  LET put(todo) == IF todo.id = id THEN [todo EXCEPT !.priority = p] ELSE todo
  IN [i \in 1..Len(list) |-> put(list[i])]

UpdatePriority(id, p) ==
  /\ pc = "ready"
  /\ todos' = Reprioritized(todos, id, p)
  /\ storage' = SaveTodos(storage, todos')
  /\ last' = Op("updatePriority")
  /\ UNCHANGED <<boot, scenario, timeZone>>
  /\ UNCHANGED <<filter, categoryFilter, sortBy, searchQuery>>
  /\ UNCHANGED <<pc, pending, darkMode, editingId, editText, deletingId,
                 timers, now>>

(* keeps the completed tasks instead of the active ones *)
CompletedOnly(list) ==
  LET keep(todo) == todo.completed
  IN SelectSeq(list, keep)

ActiveOnly(list) ==
  LET keep(todo) == ~todo.completed
  IN SelectSeq(list, keep)

ClearCompleted ==
  /\ pc = "ready"
  /\ todos' = ActiveOnly(todos)
  /\ storage' = SaveTodos(storage, todos')
  /\ last' = Op("clearCompleted")
  /\ UNCHANGED <<boot, scenario, timeZone>>
  /\ UNCHANGED <<filter, categoryFilter, sortBy, searchQuery>>
  /\ UNCHANGED <<pc, pending, darkMode, editingId, editText, deletingId,
                 timers, now>>

(* the truth value JavaScript gives a value: false and null are falsy,    *)
(* objects, arrays and the (non-zero) number are truthy                    *)
JsTruthy(v) ==
  CASE v.kind = "bool" -> v.b
    [] v.kind = "null" -> FALSE
    [] OTHER -> TRUE

(* the theme button: setDarkMode(!darkMode), then the darkMode save effect *)
ToggleDarkMode ==
  /\ pc = "ready"
  /\ darkMode' = BoolVal(~JsTruthy(darkMode))
  /\ storage' = SaveDarkMode(storage, darkMode')
  /\ last' = Op("toggleDarkMode")
  /\ UNCHANGED <<boot, scenario, timeZone>>
  /\ UNCHANGED <<filter, categoryFilter, sortBy, searchQuery>>
  /\ UNCHANGED <<pc, pending, todos, editingId, editText, deletingId, timers,
                 now>>

(* the millisecond clock read by Date.now() and new Date() *)
Tick ==
  /\ pc = "ready"
  /\ now < MaxClock
  /\ now' = now + 1
  /\ UNCHANGED <<boot, scenario, timeZone>>
  /\ UNCHANGED <<filter, categoryFilter, sortBy, searchQuery>>
  /\ UNCHANGED <<pc, storage, pending, todos, darkMode, editingId, editText,
                 deletingId, timers, last>>

(* ---------------------------- view pipeline --------------------------- *)
(* The derived values of a render: filteredTodos, stats, progressPercent   *)
(* and the date predicates of a row.  They are functions of the state and  *)
(* are not stored.                                                         *)
FilterTypes == {"all", "active", "completed"}

SortTypes == {"date", "priority", "alphabetical", "dueDate"}

LowerOf(c) == CASE c = "A" -> "a" [] c = "B" -> "b" [] OTHER -> c

ToLowerCase(s) == [i \in 1..Len(s) |-> LowerOf(s[i])]

Includes(s, q) ==
  \E k \in 0..(Len(s) - Len(q)) : SubSeq(s, k + 1, k + Len(q)) = q

MatchesFilter(todo, f) ==
  IF f = "active" THEN ~todo.completed
  ELSE IF f = "completed" THEN todo.completed
  ELSE TRUE

MatchesCategory(todo, c) ==
  IF c # "all" THEN todo.category = c ELSE TRUE

(* compares the text and the query as typed *)
MatchesSearchCaseSensitive(todo, q) == Includes(todo.text, q)

MatchesSearch(todo, q) == Includes(ToLowerCase(todo.text), ToLowerCase(q))

(* the three chained .filter calls *)
Filtered(list, f, c, q) ==
  LET byStatus(todo) == MatchesFilter(todo, f)
      byCategory(todo) == MatchesCategory(todo, c)
      bySearch(todo) == MatchesSearch(todo, q)
  IN SelectSeq(SelectSeq(SelectSeq(list, byStatus), byCategory), bySearch)

PriorityOrder(p) ==
  CASE p = "high" -> 0 [] p = "medium" -> 1 [] p = "low" -> 2

(* collation of the characters used: letters in alphabetical order after   *)
(* the space, the lower-case letter before its capital                     *)
Letter(c) == CASE c = " " -> 0 [] c \in {"a", "A"} -> 1 [] c \in {"b", "B"} -> 2

CaseOf(c) == IF c \in {"A", "B"} THEN 1 ELSE 0

RECURSIVE LexCompare(_, _)
LexCompare(x, y) ==
  IF x = <<>> /\ y = <<>> THEN 0
  ELSE IF x = <<>> THEN -1
  ELSE IF y = <<>> THEN 1
  ELSE IF Head(x) < Head(y) THEN -1
  ELSE IF Head(x) > Head(y) THEN 1
  ELSE LexCompare(Tail(x), Tail(y))

(* String.prototype.localeCompare: the letters decide first, the case of   *)
(* the letters only between texts that differ in nothing else              *)
LocaleCompare(x, y) ==
  LET lx == [i \in 1..Len(x) |-> Letter(x[i])]
      ly == [i \in 1..Len(y) |-> Letter(y[i])]
      cx == [i \in 1..Len(x) |-> CaseOf(x[i])]
      cy == [i \in 1..Len(y) |-> CaseOf(y[i])]
  IN IF LexCompare(lx, ly) # 0 THEN LexCompare(lx, ly)
     ELSE LexCompare(cx, cy)

MsPerHour == 3600000

MsPerDay == 24 * MsPerHour

(* new Date("YYYY-MM-DD").getTime(): a date-only string is midnight UTC    *)
ParseDate(day) == day * MsPerDay

(* new Date(createdAt).getTime(), of a Date or of its ISO string           *)
GetTime(createdAt) == createdAt.ms

Falsy(dueDate) == dueDate \in {NullDate, EmptyDate}

(* puts the tasks without a due date first *)
DueDateCompareNullsFirst(a, b) ==
  IF Falsy(a.dueDate) THEN -1
  ELSE IF Falsy(b.dueDate) THEN 1
  ELSE ParseDate(a.dueDate) - ParseDate(b.dueDate)

DueDateCompare(a, b) ==
  IF Falsy(a.dueDate) THEN 1
  ELSE IF Falsy(b.dueDate) THEN -1
  ELSE ParseDate(a.dueDate) - ParseDate(b.dueDate)

(* subtracts the ranks the other way round *)
PriorityCompareReversed(a, b) ==
  PriorityOrder(b.priority) - PriorityOrder(a.priority)

PriorityCompare(a, b) ==
  PriorityOrder(a.priority) - PriorityOrder(b.priority)

(* oldest first *)
DateCompareAscending(a, b) == GetTime(a.createdAt) - GetTime(b.createdAt)

DateCompare(a, b) == GetTime(b.createdAt) - GetTime(a.createdAt)

Compare(a, b, key) ==
  CASE key = "priority" -> PriorityCompare(a, b)
    [] key = "alphabetical" -> LocaleCompare(a.text, b.text)
    [] key = "dueDate" -> DueDateCompare(a, b)
    [] OTHER -> DateCompare(a, b)

Orderings(n) ==
  {p \in [1..n -> 1..n] : \A i, j \in 1..n : i # j => p[i] # p[j]}

(* Array.prototype.sort: the results a comparison sort can return.  The    *)
(* element at i may come before the one at j when the comparator, asked    *)
(* in either argument order, puts it first, or calls the two equal and i   *)
(* is the earlier one (the sort is stable).  For a consistent comparator   *)
(* this is one list; where the comparator contradicts itself on a pair,    *)
(* the order of that pair depends on the engine's algorithm.               *)
MayPrecede(list, key, i, j) ==
  LET ij == Compare(list[i], list[j], key)
      ji == Compare(list[j], list[i], key)
  IN \/ ij < 0
     \/ ji > 0
     \/ (ij = 0 /\ ji = 0 /\ i < j)

SortOutcomes(list, key) ==
  LET n == Len(list)
      ok(p) == \A k, l \in 1..n : k < l => MayPrecede(list, key, p[k], p[l])
  IN {[k \in 1..n |-> list[p[k]]] : p \in {q \in Orderings(n) : ok(q)}}

(* the lists that filteredTodos can be in the current render *)
FilteredTodos ==
  SortOutcomes(Filtered(todos, filter, categoryFilter, searchQuery), sortBy)

(* counts the completed high-priority tasks too *)
StatsOfAllHigh(list) ==
  LET active(t) == ~t.completed
      completed(t) == t.completed
      highPriority(t) == t.priority = "high"
  IN [total |-> Len(list),
      active |-> Len(SelectSeq(list, active)),
      completed |-> Len(SelectSeq(list, completed)),
      highPriority |-> Len(SelectSeq(list, highPriority))]

StatsOf(list) ==
  LET active(t) == ~t.completed
      completed(t) == t.completed
      highPriority(t) == t.priority = "high" /\ ~t.completed
  IN [total |-> Len(list),
      active |-> Len(SelectSeq(list, active)),
      completed |-> Len(SelectSeq(list, completed)),
      highPriority |-> Len(SelectSeq(list, highPriority))]

(* computes the counters from the filtered list *)
StatsOfView == StatsOf(Filtered(todos, filter, categoryFilter, searchQuery))

Stats == StatsOf(todos)

(* JavaScript numbers as far as the progress computation needs them: a     *)
(* fraction num / den, or NaN                                              *)
Number(n) == [nan |-> FALSE, num |-> n, den |-> 1]

NaN == [nan |-> TRUE, num |-> 0, den |-> 1]

Divide(a, b) ==
  IF b = 0 /\ a = 0 THEN NaN ELSE [nan |-> FALSE, num |-> a, den |-> b]

Times(x, k) == IF x.nan THEN NaN ELSE [x EXCEPT !.num = @ * k]

(* Math.round: the nearest integer, halves upwards *)
MathRound(x) ==
  IF x.nan THEN NaN ELSE Number((2 * x.num + x.den) \div (2 * x.den))

(* divides without looking at the total *)
ProgressPercentUnguarded ==
  MathRound(Times(Divide(Stats.completed, Stats.total), 100))

ProgressPercent ==
  IF Stats.total > 0
  THEN MathRound(Times(Divide(Stats.completed, Stats.total), 100))
  ELSE Number(0)

(* Date.prototype.toDateString: the calendar day in the local time zone,   *)
(* which is timeZone hours ahead of UTC                                    *)
ToDateString(ms) == (ms + timeZone * MsPerHour) \div MsPerDay

(* compares the instants only *)
IsOverdueByInstant(dueDate) ==
  IF Falsy(dueDate) THEN FALSE ELSE ParseDate(dueDate) < now

IsOverdue(dueDate) ==
  IF Falsy(dueDate) THEN FALSE
  ELSE /\ ParseDate(dueDate) < now
       /\ ToDateString(ParseDate(dueDate)) # ToDateString(now)

IsDueToday(dueDate) ==
  IF Falsy(dueDate) THEN FALSE
  ELSE ToDateString(ParseDate(dueDate)) = ToDateString(now)

SetFilter(f) ==
  /\ pc = "ready"
  /\ filter' = f
  /\ last' = Op("setFilter")
  /\ UNCHANGED <<categoryFilter, sortBy, searchQuery>>
  /\ UNCHANGED <<pc, storage, pending, todos, darkMode, editingId, editText,
                 deletingId, timers, now, boot, scenario, timeZone>>

SetCategoryFilter(c) ==
  /\ pc = "ready"
  /\ categoryFilter' = c
  /\ last' = Op("setCategoryFilter")
  /\ UNCHANGED <<filter, sortBy, searchQuery>>
  /\ UNCHANGED <<pc, storage, pending, todos, darkMode, editingId, editText,
                 deletingId, timers, now, boot, scenario, timeZone>>

(* sorts the todos array itself *)
SetSortBySortsStore(key) ==
  /\ pc = "ready"
  /\ sortBy' = key
  /\ todos' \in SortOutcomes(todos, key)
  /\ last' = Op("setSortBy")
  /\ UNCHANGED <<filter, categoryFilter, searchQuery>>
  /\ UNCHANGED <<pc, storage, pending, darkMode, editingId, editText,
                 deletingId, timers, now, boot, scenario, timeZone>>

SetSortBy(key) ==
  /\ pc = "ready"
  /\ sortBy' = key
  /\ last' = Op("setSortBy")
  /\ UNCHANGED <<filter, categoryFilter, searchQuery>>
  /\ UNCHANGED <<pc, storage, pending, todos, darkMode, editingId, editText,
                 deletingId, timers, now, boot, scenario, timeZone>>

SetSearchQuery(q) ==
  /\ pc = "ready"
  /\ searchQuery' = q
  /\ last' = Op("setSearchQuery")
  /\ UNCHANGED <<filter, categoryFilter, sortBy>>
  /\ UNCHANGED <<pc, storage, pending, todos, darkMode, editingId, editText,
                 deletingId, timers, now, boot, scenario, timeZone>>

TimeZones == {-5, 0, 2}

FirstInstant == ParseDate(2)

LastInstant == ParseDate(5) - MsPerHour

(* the wall clock between two renders, an hour at a time *)
HourPasses ==
  /\ pc = "ready"
  /\ now + MsPerHour <= LastInstant
  /\ now' = now + MsPerHour
  /\ UNCHANGED <<filter, categoryFilter, sortBy, searchQuery>>
  /\ UNCHANGED <<pc, storage, pending, todos, darkMode, editingId, editText,
                 deletingId, timers, last, boot, scenario, timeZone>>

(* --------------------------- specifications -------------------------- *)
(* Events the rendered page offers: row controls exist only for tasks of   *)
(* the current render, the Save button and the edit input only in the row  *)
(* being edited, the clear button only while a completed task exists.      *)
Next ==
  \/ MountEffects
  \/ Rerender
  \/ \E f \in FormsOf(scenario) : AddTodo(f)
  \/ (scenario = "completing" /\ \E id \in IdsOf(todos) : ToggleTodo(id))
  \/ (scenario \in {"completing", "deleting"}
        /\ ActiveOnly(todos) # todos /\ ClearCompleted)
  \/ (scenario = "deleting" /\ \E id \in IdsOf(todos) : DeleteTodo(id))
  \/ DeleteTimer
  \/ (scenario = "editing" /\ \E i \in 1..Len(todos) : StartEditing(i))
  \/ (scenario = "editing" /\ \E t \in InputTexts : SetEditText(t))
  \/ (scenario = "editing"
        /\ \E id \in IdsOf(todos) \cap {editingId} : SaveEdit(id))
  \/ (scenario = "editing"
        /\ \E id \in IdsOf(todos) :
             \E p \in PriorityInputs : UpdatePriority(id, p))
  \/ Tick

Spec == Init /\ [][Next]_vars

(* The handlers called directly, also with ids that name no task.          *)
InitApi == InitWith({"api"}, UsualEntries)

NextApi ==
  \/ MountEffects
  \/ Rerender
  \/ \E f \in FormsOf(scenario) : AddTodo(f)
  \/ \E id \in IdUniverse : ToggleTodo(id)
  \/ \E id \in IdUniverse : DeleteTodo(id)
  \/ DeleteTimer
  \/ \E i \in 1..Len(todos) : StartEditing(i)
  \/ \E id \in IdUniverse : SaveEdit(id)
  \/ \E id \in IdUniverse : UpdatePriority(id, "low")
  \/ Tick

SpecApi == InitApi /\ [][NextApi]_vars

(* Page load over every kind of persisted value, up to the first           *)
(* interactive render.                                                     *)
LoadedTodo2 ==
  Todo(1, <<" ", "B">>, FALSE, "high", "work", 3,
       [type |-> "string", ms |-> 1], "n")

TodoEntries ==
  {Val(k) : k \in {"absent", "empty", "garbage", "null", "number", "object",
                   "badarray"}}
  \cup {BoolVal(TRUE)}
  \cup {Stringify(l) : l \in {<<>>, <<LoadedTodo>>, <<LoadedTodo2, LoadedTodo>>}}

DarkModeEntries ==
  {Val(k) : k \in {"absent", "empty", "garbage", "null", "number", "object"}}
  \cup {BoolVal(TRUE), BoolVal(FALSE), ArrayVal(<<>>)}

InitStartup ==
  InitWith({"startup"}, [complexTodos : TodoEntries, darkMode : DarkModeEntries])

NextStartup ==
  \/ MountEffects
  \/ Rerender

SpecStartup == InitStartup /\ [][NextStartup]_vars

(* The view controls over persisted lists of up to MaxLoaded tasks and     *)
(* the tasks added to them in this session.                                *)
MaxLoaded == 3

LoadedTodo3 ==
  Todo(2, <<"A", "b">>, FALSE, "low", "work", NullDate,
       [type |-> "string", ms |-> 2], "")

LoadedTodo4 ==
  Todo(3, <<"b">>, TRUE, "high", "health", 2,
       [type |-> "string", ms |-> 3], "n")

ViewPool == {LoadedTodo, LoadedTodo2, LoadedTodo3, LoadedTodo4}

ViewLists ==
  UNION {{l \in [1..n -> ViewPool] : \A i, j \in 1..n : i # j => l[i] # l[j]} :
           n \in 0..MaxLoaded}

ViewEntries ==
  {[complexTodos |-> Stringify(l), darkMode |-> Val("absent")] : l \in ViewLists}

CategoryInputs == {"all", "work", "shopping", "other"}

SearchInputs == {<<>>, <<"A">>, <<"b">>, <<"a", "b">>}

InitView == InitAt({"viewing"}, ViewEntries, {5}, {0})

NextView ==
  \/ MountEffects
  \/ Rerender
  \/ \E f \in FormsOf(scenario) : AddTodo(f)
  \/ \E f \in FilterTypes : SetFilter(f)
  \/ \E c \in CategoryInputs : SetCategoryFilter(c)
  \/ \E key \in SortTypes : SetSortBy(key)
  \/ \E q \in SearchInputs : SetSearchQuery(q)

SpecView == InitView /\ [][NextView]_vars

(* The date predicates of the rows over three days of wall clock, in       *)
(* time zones behind, at and ahead of UTC.                                 *)
DateEntries ==
  {[complexTodos |-> Stringify(l), darkMode |-> Val("absent")] :
     l \in {<<LoadedTodo2, LoadedTodo4, LoadedTodo>>, <<LoadedTodo4>>}}

InitDates == InitAt({"dates"}, DateEntries, {FirstInstant}, TimeZones)

NextDates ==
  \/ MountEffects
  \/ Rerender
  \/ HourPasses

SpecDates == InitDates /\ [][NextDates]_vars

(* The theme preference over the persisted values the page itself         *)
(* writes, next to operations on the tasks.                                *)
ThemeEntries ==
  [complexTodos : {Val("absent"), Stringify(<<LoadedTodo>>)},
   darkMode : {Val("absent"), BoolVal(TRUE), BoolVal(FALSE)}]

InitTheme == InitWith({"theme"}, ThemeEntries)

NextTheme ==
  \/ MountEffects
  \/ Rerender
  \/ ToggleDarkMode
  \/ \E f \in FormsOf(scenario) : AddTodo(f)
  \/ \E id \in IdsOf(todos) : ToggleTodo(id)
  \/ Tick

SpecTheme == InitTheme /\ [][NextTheme]_vars

(* ------------------------------- claims ------------------------------- *)
OnlyWhitespace(s) == \A i \in 1..Len(s) : s[i] = " "

SyncHandler ==
  \/ \E f \in FormInputs : AddTodo(f)
  \/ \E id \in IdUniverse : ToggleTodo(id)
  \/ \E id \in IdUniverse : SaveEdit(id)
  \/ \E id \in IdUniverse : \E p \in Priorities : UpdatePriority(id, p)
  \/ ClearCompleted

RemoveRequest == \E id \in IdUniverse : DeleteTodo(id)

(* C1: in every reachable state no two tasks of the store have the same    *)
(* id, for any non-decreasing sequence of clock readings.                  *)
C1_UniqueIds ==
  \A i, j \in 1..Len(todos) : i # j => todos[i].id # todos[j].id

(* C2: when remove(id) takes effect the store is the store of the moment   *)
(* just before with the tasks of that id taken out: no such task is left,  *)
(* and every other task is still there, unchanged and in the same order.   *)
C2_RemoveKeepsOthers ==
  [][DeleteTimer => todos' = Without(todos, Head(timers).id)]_vars

C4_MalformedFallsBack ==
  /\ pc # "error"
  /\ (pc = "ready" /\ boot.complexTodos.kind # "array") => todos = <<>>
  /\ (pc = "ready" /\ boot.darkMode.kind # "bool") => darkMode = BoolVal(FALSE)

(* C5: once a mutation has been processed the persisted tasks value is     *)
(* the serialization of the whole in-memory collection.                    *)
C5_PersistedMatchesStore ==
  pc = "ready" =>
    /\ storage.complexTodos.kind = "array"
    /\ Len(storage.complexTodos.a) = Len(todos)
    /\ \A i \in 1..Len(todos) :
         LET p == storage.complexTodos.a[i]
             t == todos[i]
         IN /\ p.id = t.id /\ p.text = t.text /\ p.completed = t.completed
            /\ p.priority = t.priority /\ p.category = t.category
            /\ p.dueDate = t.dueDate /\ p.notes = t.notes
            /\ p.createdAt = [type |-> "string", ms |-> t.createdAt.ms]

C5_SavedAfterRemove ==
  /\ pc = "ready"
  /\ last.op = "timer"
  /\ todos = <<>>
  /\ boot.complexTodos.kind = "array"

(* C6: add with an empty or whitespace-only text leaves the collection     *)
(* unchanged.                                                              *)
C6_BlankAddIsNoOp ==
  [][\A f \in FormInputs :
       (OnlyWhitespace(f.inputValue) /\ AddTodo(f)) => todos' = todos]_vars

C6_BlankAddHappened ==
  /\ last.op = "addBlank"
  /\ todos # <<>>

(* C7: add with a non-blank text puts a task with exactly the given        *)
(* fields, completed = false and an id not yet in the store in front of    *)
(* the unchanged previous collection.                                      *)
C7_AddPrependsFreshTask ==
  [][\A f \in FormInputs :
       (~OnlyWhitespace(f.inputValue) /\ AddTodo(f)) =>
         /\ Len(todos') = Len(todos) + 1
         /\ Tail(todos') = todos
         /\ todos'[1].text = f.inputValue
         /\ todos'[1].priority = f.priority
         /\ todos'[1].category = f.category
         /\ todos'[1].notes = f.notes
         /\ todos'[1].dueDate =
              (IF f.dueDate = EmptyDate THEN NullDate ELSE f.dueDate)
         /\ todos'[1].completed = FALSE
         /\ todos'[1].id \notin IdsOf(todos)]_vars

(* C8: toggling a task and toggling it again gives back the collection     *)
(* as it was, so the completed flag has its original value.                *)
C8_ToggleTwiceRestores ==
  [][\A id \in IdsOf(todos) :
       ToggleTodo(id) =>
         /\ Toggled(todos', id) = todos
         /\ \A i \in 1..Len(todos) :
              todos[i].id = id => todos'[i].completed # todos[i].completed]_vars

C8_Toggled ==
  /\ last.op = "toggle"
  /\ \E i, j \in 1..Len(todos) : todos[i].completed /\ ~todos[j].completed

(* C9: toggleCompleted, remove, editText and setPriority with an id that   *)
(* names no task leave the collection unchanged.                           *)
C9_UnknownIdIsNoOp ==
  [][/\ \A id \in IdUniverse \ IdsOf(todos) :
          (\/ ToggleTodo(id)
           \/ SaveEdit(id)
           \/ \E p \in Priorities : UpdatePriority(id, p)) => todos' = todos
     /\ (DeleteTimer /\ Head(timers).id \notin IdsOf(Head(timers).snap))
          => todos' = todos]_vars

(* C10: editText with an empty or whitespace-only text leaves the          *)
(* collection unchanged; with any other text the matching task's text      *)
(* becomes that text.                                                      *)
C10_EditText ==
  [][\A id \in IdsOf(todos) :
       SaveEdit(id) =>
         IF OnlyWhitespace(editText)
         THEN todos' = todos
         ELSE /\ Len(todos') = Len(todos)
              /\ \A i \in 1..Len(todos) :
                   todos[i].id = id => todos'[i].text = editText]_vars

C10_TextReplaced ==
  /\ last.op = "saveEdit"
  /\ \E i \in 1..Len(todos) :
       todos[i].text = <<" ", "B">> /\ todos[i].category = "shopping"

Count(list, t) == Cardinality({i \in 1..Len(list) : list[i] = t})

Elements(list) == {list[i] : i \in 1..Len(list)}

SameLetter(c, d) == c = d \/ {c, d} = {"a", "A"} \/ {c, d} = {"b", "B"}

SatisfiesAll(t) ==
  /\ \/ filter = "all"
     \/ filter = "active" /\ ~t.completed
     \/ filter = "completed" /\ t.completed
  /\ categoryFilter = "all" \/ t.category = categoryFilter
  /\ \E k \in 0..(Len(t.text) - Len(searchQuery)) :
       \A i \in 1..Len(searchQuery) : SameLetter(t.text[k + i], searchQuery[i])

(* C12: the derived view contains exactly the tasks of the store that      *)
(* satisfy the status filter, the category filter and the case-            *)
(* insensitive substring search all at once.                               *)
C12_ViewIsConjunction ==
  pc = "ready" =>
    /\ FilteredTodos # {}
    /\ \A v \in FilteredTodos :
         \A t \in Elements(todos) \cup Elements(v) :
           Count(v, t) = IF SatisfiesAll(t) THEN Count(todos, t) ELSE 0

C12_EachPredicateExcludes ==
  /\ filter = "active"
  /\ categoryFilter = "work"
  /\ searchQuery = <<"a", "b">>
  /\ Len(todos) = 3
  /\ \E i, j, k \in 1..3 :
       /\ SatisfiesAll(todos[i])
       /\ todos[j].category = "work" /\ ~SatisfiesAll(todos[j])
       /\ todos[k].completed

(* C13: the view sorted by dueDate has every task with a due date before   *)
(* every task without one, and the tasks with a due date in ascending      *)
(* order of date.                                                          *)
C13_DueDateSort ==
  (pc = "ready" /\ sortBy = "dueDate") =>
    /\ FilteredTodos # {}
    /\ \A v \in FilteredTodos :
         \A k, l \in 1..Len(v) :
           k < l =>
             /\ v[k].dueDate = NullDate => v[l].dueDate = NullDate
             /\ (v[k].dueDate # NullDate /\ v[l].dueDate # NullDate)
                  => v[k].dueDate <= v[l].dueDate

C13_UndatedFirstInStore ==
  /\ pc = "ready" /\ sortBy = "dueDate"
  /\ filter = "all" /\ categoryFilter = "all" /\ searchQuery = <<>>
  /\ Len(todos) = 3
  /\ todos[1].dueDate = NullDate /\ todos[2].dueDate = 3 /\ todos[3].dueDate = 2

(* C14: the dueDate comparator returns 0 for two tasks without a due date, *)
(* in either argument order, returns 0 only for such a pair, and returns   *)
(* a non-zero value with the sign the dates determine for every other      *)
(* pair.                                                                   *)
C14_DueDateComparator ==
  (pc = "ready" /\ sortBy = "dueDate") =>
    LET list == Filtered(todos, filter, categoryFilter, searchQuery)
    IN \A i, j \in 1..Len(list) :
         i # j =>
           LET a == list[i]
               b == list[j]
               r == Compare(a, b, sortBy)
           IN /\ (a.dueDate = NullDate /\ b.dueDate = NullDate) => r = 0
              /\ r = 0 => (a.dueDate = NullDate /\ b.dueDate = NullDate)
              /\ (a.dueDate # NullDate /\ b.dueDate = NullDate) => r < 0
              /\ (a.dueDate = NullDate /\ b.dueDate # NullDate) => r > 0
              /\ (a.dueDate # NullDate /\ b.dueDate # NullDate) =>
                   /\ a.dueDate < b.dueDate => r < 0
                   /\ a.dueDate > b.dueDate => r > 0

Rank(p) == IF p = "high" THEN 0 ELSE IF p = "medium" THEN 1 ELSE 2

(* C15: the view sorted by priority lists the high tasks, then the medium  *)
(* tasks, then the low tasks, and tasks of equal priority are in the       *)
(* order they have in the store.                                           *)
C15_PrioritySortStable ==
  (pc = "ready" /\ sortBy = "priority") =>
    /\ FilteredTodos # {}
    /\ \A v \in FilteredTodos :
         /\ \A k, l \in 1..Len(v) :
              k < l => Rank(v[k].priority) <= Rank(v[l].priority)
         /\ \A p \in Priorities :
              LET hasP(t) == t.priority = p
                  shown(t) == t \in Elements(v)
              IN SelectSeq(v, hasP) = SelectSeq(SelectSeq(todos, shown), hasP)

C15_TieAndDisorder ==
  /\ pc = "ready" /\ sortBy = "priority"
  /\ filter = "all" /\ categoryFilter = "all" /\ searchQuery = <<>>
  /\ Len(todos) = 3
  /\ todos[1].priority = "low"
  /\ todos[2].priority = "high" /\ todos[3].priority = "high"

(* C16: under the default sort key 'date' the view is in descending order  *)
(* of createdAt, for tasks created in this session and for tasks loaded    *)
(* from the persisted state alike.                                         *)
C16_DateSortNewestFirst ==
  (pc = "ready" /\ sortBy = "date") =>
    /\ FilteredTodos # {}
    /\ \A v \in FilteredTodos :
         \A k, l \in 1..Len(v) :
           k < l => v[k].createdAt.ms >= v[l].createdAt.ms

C16_OldestFirstInStore ==
  /\ pc = "ready" /\ sortBy = "date"
  /\ filter = "all" /\ categoryFilter = "all" /\ searchQuery = <<>>
  /\ Len(todos) = 3
  /\ todos[1].createdAt.ms < todos[2].createdAt.ms
  /\ todos[2].createdAt.ms < todos[3].createdAt.ms

(* C17: total, active, completed and highPriority count the tasks of the   *)
(* whole collection (all, completed = false, completed = true, priority    *)
(* high and completed = false), whatever the status filter, category       *)
(* filter, search query and sort key are.                                  *)
C17_StatsOfWholeStore ==
  pc = "ready" =>
    LET all == 1..Len(todos)
    IN /\ Stats.total = Cardinality(all)
       /\ Stats.active = Cardinality({i \in all : ~todos[i].completed})
       /\ Stats.completed = Cardinality({i \in all : todos[i].completed})
       /\ Stats.highPriority =
            Cardinality({i \in all : todos[i].priority = "high"
                                       /\ ~todos[i].completed})

C17_FiltersHideCountedTasks ==
  /\ pc = "ready"
  /\ filter = "completed" /\ categoryFilter = "work"
  /\ searchQuery = <<"A">> /\ sortBy = "priority"
  /\ Stats.total = 3 /\ Stats.completed = 1 /\ Stats.highPriority = 1
  /\ \E i \in 1..3 : todos[i].priority = "high" /\ todos[i].completed

(* C18: the progress percentage is 0 for the empty store and otherwise     *)
(* completed / total * 100 rounded to the nearest integer; it is always    *)
(* an integer from 0 to 100, never not-a-number.                           *)
C18_ProgressPercent ==
  pc = "ready" =>
    LET total == Len(todos)
        completed == Cardinality({i \in 1..Len(todos) : todos[i].completed})
        p == ProgressPercent
    IN /\ ~p.nan
       /\ p.den = 1
       /\ p.num \in 0..100
       /\ total = 0 => p.num = 0
       /\ total > 0 =>
            /\ 2 * (p.num * total - 100 * completed) <= total
            /\ 2 * (100 * completed - p.num * total) <= total
       /\ (total = 2 /\ completed = 1) => p.num = 50

C18_RoundedUp ==
  /\ pc = "ready"
  /\ Len(todos) = 3
  /\ Stats.completed = 2
  /\ ProgressPercent = Number(67)

(* the user's current calendar day, in local time *)
LocalToday == (now + timeZone * MsPerHour) \div MsPerDay

(* C19: isOverdue is true exactly for a due date on a calendar day before  *)
(* the user's current local day; it is false for today's date at any time  *)
(* of day, for a later day and for no due date.                            *)
C19_IsOverdue ==
  pc = "ready" =>
    \A i \in 1..Len(todos) :
      LET d == todos[i].dueDate
      IN IsOverdue(d) = (d # NullDate /\ d < LocalToday)

(* C20: isDueToday is true exactly when the due date is the user's         *)
(* current local calendar day, whatever the time of day, and false for no  *)
(* due date.                                                               *)
C20_IsDueToday ==
  pc = "ready" =>
    \A i \in 1..Len(todos) :
      LET d == todos[i].dueDate
      IN IsDueToday(d) = (d # NullDate /\ d = LocalToday)

(* C21: serializing the collection and deserializing it again (the save    *)
(* effect followed by the load effect) gives an equal collection: same     *)
(* tasks in the same order, every field with the same value and type,      *)
(* createdAt included.                                                     *)
C21_RoundTrip ==
  pc = "ready" => Parse(SaveTodos(storage, todos).complexTodos).a = todos

(* C22: no task of the store and no task of the persisted value has an     *)
(* empty or whitespace-only text.                                          *)
C22_NoBlankText ==
  /\ \A i \in 1..Len(todos) : ~OnlyWhitespace(todos[i].text)
  /\ storage.complexTodos.kind = "array" =>
       \A i \in 1..Len(storage.complexTodos.a) :
         ~OnlyWhitespace(storage.complexTodos.a[i].text)

C22_BlankEditRejected ==
  /\ last.op = "saveEditBlank"
  /\ editText = <<" ", " ">>
  /\ todos # <<>>

(* C23: darkMode starts as false when nothing is persisted and as the      *)
(* persisted boolean otherwise; once the page is interactive the           *)
(* persisted darkMode equals the in-memory one, also after every toggle;   *)
(* a toggle flips the preference and leaves the task collection and the    *)
(* persisted tasks unchanged.                                              *)
C23_DarkMode ==
  [][/\ (pc # "ready" /\ pc' = "ready") =>
          darkMode' = IF boot.darkMode.kind = "bool"
                      THEN boot.darkMode ELSE BoolVal(FALSE)
     /\ pc' = "ready" => storage'.darkMode = darkMode'
     /\ ToggleDarkMode =>
          /\ darkMode' = BoolVal(~darkMode.b)
          /\ storage'.darkMode = darkMode'
          /\ todos' = todos
          /\ storage'.complexTodos = storage.complexTodos]_vars

C23_ToggledBackToLight ==
  /\ last.op = "toggleDarkMode"
  /\ boot.darkMode = BoolVal(TRUE)
  /\ darkMode = BoolVal(FALSE)
  /\ todos # <<>>

TodoFields ==
  {"id", "text", "completed", "priority", "category", "dueDate", "createdAt",
   "notes"}

(* the step changed nothing but `field`, and that only in tasks of one id *)
OnlyFieldChanged(field) ==
  /\ Len(todos') = Len(todos)
  /\ \E id \in IdsOf(todos) :
       \A i \in 1..Len(todos) :
         IF todos[i].id = id
         THEN \A g \in TodoFields \ {field} : todos'[i][g] = todos[i][g]
         ELSE todos'[i] = todos[i]

(* C24: toggleCompleted, editText and setPriority change only the          *)
(* completed, text and priority field of the task with the given id;       *)
(* every other field and task, the length and the order stay; no step      *)
(* changes the createdAt of a task that stays in the store.                *)
C24_OnlyNamedFieldChanges ==
  [][/\ (todos' # todos /\ last'.op = "toggle") => OnlyFieldChanged("completed")
     /\ (todos' # todos /\ last'.op = "saveEdit") => OnlyFieldChanged("text")
     /\ (todos' # todos /\ last'.op = "updatePriority")
          => OnlyFieldChanged("priority")
     /\ \A i \in 1..Len(todos') :
          todos'[i].id \in IdsOf(todos) =>
            \E j \in 1..Len(todos) :
              /\ todos[j].id = todos'[i].id
              /\ todos[j].createdAt = todos'[i].createdAt]_vars

C24_PriorityOfOneTaskChanged ==
  /\ last.op = "updatePriority"
  /\ Len(todos) = 2
  /\ todos[1].priority = "low" /\ todos[2].priority = "high"
  /\ todos[1].notes = "n"

(* ids of tasks that were in the store when a pending delete was           *)
(* requested and have left it since                                        *)
LeftIds ==
  UNION {IdsOf(timers[k].snap) \ IdsOf(todos) : k \in 1..Len(timers)}

(* C25: a task that has left the store is neither in the store nor in the  *)
(* persisted tasks value in any later state.                               *)
C25_RemovedNeverReturn ==
  [][/\ LeftIds \cap IdsOf(todos') = {}
     /\ storage'.complexTodos.kind = "array" =>
          LeftIds \cap IdsOf(storage'.complexTodos.a) = {}]_vars

(* C26: from mount up to the first re-render the persisted tasks value     *)
(* still contains every task that was persisted before the page mounted.   *)
C26_StartupKeepsPersisted ==
  boot.complexTodos.kind = "array" =>
    /\ storage.complexTodos.kind = "array"
    /\ \A i \in 1..Len(boot.complexTodos.a) :
         boot.complexTodos.a[i] \in Elements(storage.complexTodos.a)

(* C27: active + completed = total, highPriority <= active, and total is   *)
(* the length of the collection.                                           *)
C27_CountersConsistent ==
  /\ Stats.active + Stats.completed = Stats.total
  /\ Stats.highPriority <= Stats.active
  /\ Stats.total = Len(todos)

C27_HighTaskCompleted ==
  /\ last.op = "toggle"
  /\ Stats.active = 0
  /\ \E i \in 1..Len(todos) : todos[i].priority = "high" /\ todos[i].completed

(* C28: isOverdue and isDueToday are never both true of a due date, and    *)
(* both are false when there is no due date.                               *)
C28_OverdueExcludesDueToday ==
  pc = "ready" =>
    \A i \in 1..Len(todos) :
      LET d == todos[i].dueDate
      IN /\ ~(IsOverdue(d) /\ IsDueToday(d))
         /\ d = NullDate => (~IsOverdue(d) /\ ~IsDueToday(d))

C28_DueTodayAlreadyBegun ==
  /\ pc = "ready"
  /\ \E i, j \in 1..Len(todos) :
       /\ IsDueToday(todos[i].dueDate) /\ ParseDate(todos[i].dueDate) < now
       /\ todos[j].dueDate = NullDate

(* C29: changing the status filter, the category filter, the search query  *)
(* or the sort key leaves the task collection (tasks, fields, order) and   *)
(* the persisted values unchanged.                                         *)
C29_ViewLeavesStore ==
  [][(\/ filter' # filter
      \/ categoryFilter' # categoryFilter
      \/ searchQuery' # searchQuery
      \/ sortBy' # sortBy) => (todos' = todos /\ storage' = storage)]_vars

C29_ViewOrderDiffersFromStore ==
  /\ last.op = "setSortBy"
  /\ sortBy = "priority"
  /\ filter = "all" /\ categoryFilter = "all" /\ searchQuery = <<>>
  /\ Len(todos) = 3
  /\ todos \notin FilteredTodos

(* C30: editingId is null or the id of a task of the store (it is one id,  *)
(* so at most one task is marked as being edited); a successful editText   *)
(* clears it and the edit buffer, a blank editText leaves both unchanged.  *)
C30_EditingIdValid ==
  [][/\ pc' = "ready" => (editingId' = NoId \/ editingId' \in IdsOf(todos'))
     /\ \A id \in IdUniverse :
          SaveEdit(id) =>
            IF OnlyWhitespace(editText)
            THEN editingId' = editingId /\ editText' = editText
            ELSE editingId' = NoId /\ editText' = <<>>]_vars

====
